---- MODULE Spec2Model ----
(***************************************************************************)
(* Model of the Proforma Builder page (src/app/page.tsx): the calendar     *)
(* helpers, the per-project month grid, the portfolio rollup and the page  *)
(* state (selected year, project list) with its handlers.                  *)
(*                                                                         *)
(* Representation                                                          *)
(*  - A Date is a record [day, hour]: the local calendar day as a day      *)
(*    number (days since 1970-01-01) and the local hour of day.            *)
(*    getTime is in hours and depends on the time zone of the environment  *)
(*    (variable tz), so that noon-to-noon differences across a daylight    *)
(*    saving change are 23 or 25 hours and Math.round has work to do.      *)
(*  - A date string is the sequence of its "-"-separated fields, each      *)
(*    field a sequence of characters: digits 0..9, or "x" for any          *)
(*    character that makes Number() yield NaN.  The empty string is        *)
(*    << <<>> >>.                                                          *)
(*  - Numbers the rollup computes are exact rationals [n, d] in lowest     *)
(*    terms (d > 0): the arithmetic is exact, not IEEE-754.                *)
(***************************************************************************)
EXTENDS Integers, Sequences, FiniteSets, TLC

VARIABLES year, projects, effectPending, tz, nextId, edits, out

vars == <<year, projects, effectPending, tz, nextId, edits, out>>

(***************************************************************************)
(* Bounds                                                                  *)
(***************************************************************************)
\* ids handed out by uid() over a run (so at most MaxIds projects at once)
MaxIds == 2
\* updateProject calls over a run
MaxEdits == 1
\* buildMonthsForYear is tried on FirstYear .. FirstYear + YearSpan
YearSpan == 208

FirstYear == 1896
\* projects in a collection handed to the rollup and to the clamp
MaxRows == 2

\* the year of "now" (new Date().getFullYear())
NowYear == 2024

HoursPerDay == 24

\* const x = v; Op(x): the value is computed once, then used
With(v, Op(_)) == CHOOSE r \in { Op(x) : x \in {v} } : TRUE

RECURSIVE SeqOf(_, _)
\* the array <<Op(1), ..., Op(n)>>, as Array.map builds it
SeqOf(Op(_), n) == IF n = 0 THEN <<>> ELSE Append(SeqOf(Op, n - 1), Op(n))

\* null, where the code has a Date or a number otherwise
Null == [null |-> TRUE]

IsNull(x) == "null" \in DOMAIN x

\* a null dateError
NoError == "null"

(***************************************************************************)
(* The JavaScript Date object, as far as the page uses it                  *)
(***************************************************************************)
\* day number of the civil date y-m-d (m in 1..12), proleptic Gregorian
DaysFromCivil(y, m, d) ==
    LET yy  == IF m <= 2 THEN y - 1 ELSE y
        era == yy \div 400
        yoe == yy - era * 400
        mp  == (m + 9) % 12
        doy == (153 * mp + 2) \div 5 + d - 1
        doe == yoe * 365 + yoe \div 4 - yoe \div 100 + doy
    IN  era * 146097 + doe - 719468

\* the civil date [y, m, d] (m in 1..12) of a day number
CivilFromDays(z) ==
    LET z2  == z + 719468
        era == z2 \div 146097
    IN  With(z2 - era * 146097, LAMBDA doe :
        With((doe - doe \div 1460 + doe \div 36524 - doe \div 146096) \div 365, LAMBDA yoe :
        With(doe - (365 * yoe + yoe \div 4 - yoe \div 100), LAMBDA doy :
        With((5 * doy + 2) \div 153, LAMBDA mp :
          LET d == doy - (153 * mp + 2) \div 5 + 1
              m == IF mp < 10 THEN mp + 3 ELSE mp - 9
              y == yoe + era * 400 + (IF m <= 2 THEN 1 ELSE 0)
          IN  [y |-> y, m |-> m, d |-> d]))))

\* new Date(y, monthIndex, d): local midnight; a year 0..99 means 1900 + y,
\* a month index outside 0..11 carries into the year, a day outside the
\* month carries into the neighbouring months
NewDate(y, monthIndex, d) ==
    LET fullYear == IF y >= 0 /\ y <= 99 THEN 1900 + y ELSE y
        yy == fullYear + monthIndex \div 12
        mm == monthIndex % 12
    IN  [day |-> DaysFromCivil(yy, mm + 1, 1) + (d - 1), hour |-> 0]

getFullYear(dt) == CivilFromDays(dt.day).y

\* 0..11
getMonth(dt) == CivilFromDays(dt.day).m - 1

getDate(dt) == CivilFromDays(dt.day).d

\* dt.setHours(12, 0, 0, 0)
setHoursNoon(dt) == [dt EXCEPT !.hour = 12]

TimeZones == {"fixed", "north", "south"}

\* whether daylight saving time is in force on that local day, in a zone
\* without it, in a northern zone (second week of March to first week of
\* November) and in a southern one (first week of October to first week of
\* April)
InDst(zone, day) ==
    With(CivilFromDays(day), LAMBDA c :
      LET md == c.m * 100 + c.d
      IN  CASE zone = "north" -> md >= 310 /\ md <= 1102
            [] zone = "south" -> md >= 1006 \/ md <= 405
            [] OTHER -> FALSE)

\* dt.getTime(), in hours, up to the zone's constant standard offset
getTime(dt) == dt.day * HoursPerDay + dt.hour - (IF InDst(tz, dt.day) THEN 1 ELSE 0)

\* a > b, a < b on Dates compare their time values
DateGT(a, b) == getTime(a) > getTime(b)

DateLT(a, b) == getTime(a) < getTime(b)

\* variant: Math.floor in place of Math.round
MathRound_Floor(n, d) == n \div d

\* Math.round(n / d) for d > 0: the nearest integer, halves towards +infinity
MathRound(n, d) == (2 * n + d) \div (2 * d)

(***************************************************************************)
(* Date strings                                                            *)
(***************************************************************************)
DigitChars == <<"0", "1", "2", "3", "4", "5", "6", "7", "8", "9">>

IsDigit(c) == \E i \in 1..10 : DigitChars[i] = c

DigitVal(c) == (CHOOSE i \in 1..10 : DigitChars[i] = c) - 1

RECURSIVE DecimalValue(_)
DecimalValue(f) ==
    IF f = <<>> THEN 0
    ELSE 10 * DecimalValue(SubSeq(f, 1, Len(f) - 1)) + DigitVal(f[Len(f)])

\* Number(field): [nan, v]; the empty field is 0, a field with anything but
\* digits is NaN
Number(f) ==
    IF \A i \in 1..Len(f) : IsDigit(f[i])
    THEN [nan |-> FALSE, v |-> DecimalValue(f)]
    ELSE [nan |-> TRUE, v |-> 0]

\* !n for a number, and for the undefined of a missing field
Falsy(n) == n.nan \/ n.v = 0

RECURSIVE DigitsOf(_)
\* String(n) for n >= 0
DigitsOf(n) ==
    IF n < 10 THEN <<DigitChars[n + 1]>>
    ELSE Append(DigitsOf(n \div 10), DigitChars[(n % 10) + 1])

\* s.padStart(2, "0")
padStart2(f) == IF Len(f) < 2 THEN <<"0">> \o f ELSE f

\* variant: the month written as getMonth() gives it, 0..11
toISODateInput_ZeroBasedMonth(dt) ==
    <<DigitsOf(getFullYear(dt)),
      padStart2(DigitsOf(getMonth(dt))),
      padStart2(DigitsOf(getDate(dt)))>>

toISODateInput(dt) ==
    <<DigitsOf(getFullYear(dt)),
      padStart2(DigitsOf(getMonth(dt) + 1)),
      padStart2(DigitsOf(getDate(dt)))>>

EmptyString == << <<>> >>

parseDateInput(value) ==
    IF value = EmptyString THEN Null
    ELSE
      LET field(i) == IF i <= Len(value) THEN Number(value[i])
                      ELSE [nan |-> TRUE, v |-> 0]
          y == field(1)
          m == field(2)
          d == field(3)
      IN  IF Falsy(y) \/ Falsy(m) \/ Falsy(d) THEN Null
          ELSE
            LET dt == NewDate(y.v, m.v - 1, d.v)
            IN  IF getFullYear(dt) # y.v \/ getMonth(dt) # m.v - 1 \/ getDate(dt) # d.v
                THEN Null
                ELSE setHoursNoon(dt)

startOfDayNoon(dt) == setHoursNoon(dt)

(***************************************************************************)
(* Overlap, month buckets, clamping                                        *)
(***************************************************************************)
\* variant: the difference in days, without the + 1 that makes it inclusive
overlapDaysInclusive_Exclusive(aStart, aEnd, bStart, bEnd) ==
    With(IF DateGT(aStart, bStart) THEN aStart ELSE bStart, LAMBDA start :
    With(IF DateLT(aEnd, bEnd) THEN aEnd ELSE bEnd, LAMBDA end :
      IF DateGT(start, end) THEN 0
      ELSE MathRound(getTime(end) - getTime(start), HoursPerDay)))

overlapDaysInclusive(aStart, aEnd, bStart, bEnd) ==
    With(IF DateGT(aStart, bStart) THEN aStart ELSE bStart, LAMBDA start :
    With(IF DateLT(aEnd, bEnd) THEN aEnd ELSE bEnd, LAMBDA end :
      IF DateGT(start, end) THEN 0
      ELSE MathRound(getTime(end) - getTime(start), HoursPerDay) + 1))

\* variant: a bucket ends on day 1 of the next month instead of day 0
buildMonthsForYear_EndsOnDayOne(yr) ==
    SeqOf(LAMBDA i : [monthIndex |-> i - 1,
                      start |-> startOfDayNoon(NewDate(yr, i - 1, 1)),
                      end   |-> startOfDayNoon(NewDate(yr, i, 1))], 12)

\* variant: buckets of four whole weeks from January 1, 13 to the year
buildMonthsForYear_FourWeekPeriods(yr) ==
    SeqOf(LAMBDA i : [monthIndex |-> i - 1,
                      start |-> startOfDayNoon(NewDate(yr, 0, 28 * i - 27)),
                      end   |-> startOfDayNoon(NewDate(yr, 0, 28 * i))], 13)

\* the buckets of a year, month m (0..11) at index m + 1
buildMonthsForYear(yr) ==
    SeqOf(LAMBDA i : [monthIndex |-> i - 1,
                      start |-> startOfDayNoon(NewDate(yr, i - 1, 1)),
                      end   |-> startOfDayNoon(NewDate(yr, i, 0))], 12)

clampProjectDatesToYear(p, yr) ==
    LET yearStart == startOfDayNoon(NewDate(yr, 0, 1))
        yearEnd   == startOfDayNoon(NewDate(yr, 11, 31))
        ps0 == parseDateInput(p.startDate)
        pe0 == parseDateInput(p.endDate)
        ps  == IF IsNull(ps0) THEN yearStart ELSE ps0
        pe  == IF IsNull(pe0) THEN yearEnd ELSE pe0
        clampedStart == IF DateLT(ps, yearStart) THEN yearStart
                        ELSE IF DateGT(ps, yearEnd) THEN yearEnd ELSE ps
        clampedEnd   == IF DateLT(pe, yearStart) THEN yearStart
                        ELSE IF DateGT(pe, yearEnd) THEN yearEnd ELSE pe
        finalStart == clampedStart
        finalEnd   == IF DateLT(clampedEnd, finalStart) THEN finalStart ELSE clampedEnd
    IN  [p EXCEPT !.startDate = toISODateInput(finalStart),
                  !.endDate = toISODateInput(finalEnd)]

(***************************************************************************)
(* Exact numbers                                                           *)
(***************************************************************************)
Abs(n) == IF n < 0 THEN -n ELSE n

RECURSIVE Gcd(_, _)
Gcd(a, b) == IF b = 0 THEN a ELSE Gcd(b, a % b)

\* the number n / d (d # 0) in lowest terms with a positive denominator
Rat(n, d) ==
    LET g == Gcd(Abs(n), Abs(d))
        s == IF d < 0 THEN -1 ELSE 1
    IN  [n |-> s * (n \div g), d |-> s * (d \div g)]

RAdd(a, b) == Rat(a.n * b.d + b.n * a.d, a.d * b.d)

RSub(a, b) == Rat(a.n * b.d - b.n * a.d, a.d * b.d)

\* common factors are cancelled before multiplying
RMul(a, b) ==
    LET g1 == Gcd(Abs(a.n), b.d)
        g2 == Gcd(Abs(b.n), a.d)
    IN  Rat((a.n \div g1) * (b.n \div g2), (a.d \div g2) * (b.d \div g1))

\* a / b for b # 0
RDiv(a, b) == RMul(a, Rat(b.d, b.n))

RLeqZero(a) == a.n <= 0

RZero == Rat(0, 1)

(***************************************************************************)
(* Amounts                                                                 *)
(***************************************************************************)
ZeroAmounts == [revenue |-> RZero, cost |-> RZero, adjustments |-> RZero, margin |-> RZero]

computeWeeklyMargin(p) ==
    RAdd(RSub(Rat(p.weeklyRevenue, 1), Rat(p.weeklyCost, 1)), Rat(p.weeklyAdjustments, 1))

addAmounts(a, b) ==
    [revenue     |-> RAdd(a.revenue, b.revenue),
     cost        |-> RAdd(a.cost, b.cost),
     adjustments |-> RAdd(a.adjustments, b.adjustments),
     margin      |-> RAdd(a.margin, b.margin)]

\* variant: the margin leaves the adjustments out
amountsFromWeekly_NoAdjustments(weeklyRevenue, weeklyCost, weeklyAdjustments, factorWeeks) ==
    LET revenue     == RMul(Rat(weeklyRevenue, 1), factorWeeks)
        cost        == RMul(Rat(weeklyCost, 1), factorWeeks)
        adjustments == RMul(Rat(weeklyAdjustments, 1), factorWeeks)
        margin      == RSub(revenue, cost)
    IN  [revenue |-> revenue, cost |-> cost, adjustments |-> adjustments, margin |-> margin]

amountsFromWeekly(weeklyRevenue, weeklyCost, weeklyAdjustments, factorWeeks) ==
    LET revenue     == RMul(Rat(weeklyRevenue, 1), factorWeeks)
        cost        == RMul(Rat(weeklyCost, 1), factorWeeks)
        adjustments == RMul(Rat(weeklyAdjustments, 1), factorWeeks)
        margin      == RAdd(RSub(revenue, cost), adjustments)
    IN  [revenue |-> revenue, cost |-> cost, adjustments |-> adjustments, margin |-> margin]

\* variant: only a revenue of zero is guarded, a negative one is divided by
marginPct_ZeroOnly(revenue, margin) ==
    IF revenue.n = 0 THEN Null ELSE RDiv(margin, revenue)

\* every number of the model is finite, so Number.isFinite holds
marginPct(revenue, margin) ==
    IF RLeqZero(revenue) THEN Null ELSE RDiv(margin, revenue)

RECURSIVE ReduceAmounts(_)
\* amounts.reduce((acc, a) => addAmounts(acc, a), zero)
ReduceAmounts(amounts) ==
    With(amounts, LAMBDA as :
      IF as = <<>> THEN ZeroAmounts
      ELSE With(ReduceAmounts(SubSeq(as, 1, Len(as) - 1)),
                LAMBDA acc : addAmounts(acc, as[Len(as)])))

(***************************************************************************)
(* The month grid and the portfolio rollup                                 *)
(***************************************************************************)
\* variant: a date that does not parse falls back to the bucket's own bound
BucketAmounts_DefaultsToBucket(p, start, end, m) ==
    LET s == IF IsNull(start) THEN m.start ELSE start
        e == IF IsNull(end) THEN m.end ELSE end
    IN  With(overlapDaysInclusive(s, e, m.start, m.end), LAMBDA days :
          IF days <= 0 THEN ZeroAmounts
          ELSE amountsFromWeekly(p.weeklyRevenue, p.weeklyCost, p.weeklyAdjustments,
                                 Rat(days, 7)))

\* the amount of project p, whose dates parse to start and end (or Null),
\* in the bucket m
BucketAmounts(p, start, end, m) ==
    IF IsNull(start) \/ IsNull(end) THEN ZeroAmounts
    ELSE
      With(overlapDaysInclusive(start, end, m.start, m.end), LAMBDA days :
        IF days <= 0 THEN ZeroAmounts
        ELSE amountsFromWeekly(p.weeklyRevenue, p.weeklyCost, p.weeklyAdjustments,
                               Rat(days, 7)))

DateErrorOf(ps, pe) ==
    IF IsNull(ps) \/ IsNull(pe) THEN "Start and end dates are required."
    ELSE IF DateGT(ps, pe) THEN "Start date must be on/before end date."
    ELSE NoError

\* one row of projectMonthGrid, over the buckets ms
GridRow(p, ms) ==
    With(parseDateInput(p.startDate), LAMBDA ps :
    With(parseDateInput(p.endDate), LAMBDA pe :
    With(IF IsNull(ps) THEN Null ELSE startOfDayNoon(ps), LAMBDA start :
    With(IF IsNull(pe) THEN Null ELSE startOfDayNoon(pe), LAMBDA end :
    With(SeqOf(LAMBDA i : BucketAmounts(p, start, end, ms[i]), Len(ms)), LAMBDA byMonth :
    With(ReduceAmounts(byMonth), LAMBDA total :
    With(computeWeeklyMargin(p), LAMBDA weeklyMargin :
      [project      |-> p,
       dateError    |-> DateErrorOf(ps, pe),
       byMonth      |-> byMonth,
       total        |-> total,
       weeklyMargin |-> weeklyMargin,
       weeklyPct    |-> marginPct(Rat(p.weeklyRevenue, 1), weeklyMargin),
       projectedPct |-> marginPct(total.revenue, total.margin)])))))))

GridOf(ps, ms) == SeqOf(LAMBDA k : GridRow(ps[k], ms), Len(ps))

\* variant: the total leaves the last bucket out
PortfolioOf_SkipsLastBucket(grid, ms) ==
    With(SeqOf(LAMBDA mi : ReduceAmounts(SeqOf(LAMBDA k : grid[k].byMonth[mi], Len(grid))),
               Len(ms)), LAMBDA byMonth :
    With(ReduceAmounts(SubSeq(byMonth, 1, Len(ms) - 1)), LAMBDA total :
      [byMonth |-> byMonth, total |-> total,
       projectedPct |-> marginPct(total.revenue, total.margin)]))

PortfolioOf(grid, ms) ==
    With(SeqOf(LAMBDA mi : ReduceAmounts(SeqOf(LAMBDA k : grid[k].byMonth[mi], Len(grid))),
               Len(ms)), LAMBDA byMonth :
    With(ReduceAmounts(byMonth), LAMBDA total :
      [byMonth |-> byMonth, total |-> total,
       projectedPct |-> marginPct(total.revenue, total.margin)]))

\* the memoized values of the current render
months == buildMonthsForYear(year)

projectMonthGrid == GridOf(projects, months)

portfolioByMonth == PortfolioOf(projectMonthGrid, months)

(***************************************************************************)
(* The page: state, handlers, the year effect                              *)
(***************************************************************************)
yearOptions == {NowYear - 1, NowYear, NowYear + 1, NowYear + 2}

defaultStart == toISODateInput(NewDate(year, 0, 1))

defaultEnd == toISODateInput(NewDate(year, 11, 31))

\* the text "yyyy-mm-dd" a date input holds for a day its calendar offers
DateText(y, m, d) == <<DigitsOf(y), padStart2(DigitsOf(m)), padStart2(DigitsOf(d))>>

\* what a start or end date field can be set to: cleared, and a day before,
\* in and after the first selected year
DateInputs ==
    { EmptyString,
      DateText(NowYear - 1, 11, 20),
      DateText(NowYear, 2, 29),
      DateText(NowYear + 1, 7, 4) }

\* what a rate field can hold: a number, or a text Number() makes NaN of
RateInputs == { [nan |-> FALSE, v |-> 3000], [nan |-> TRUE, v |-> 0] }

NameInputs == { "Renamed" }

clampNumber(value) == IF value.nan THEN 0 ELSE value.v

\* the patches the form's fields pass to updateProject
Patches ==
    { [name |-> n] : n \in NameInputs }
    \cup { [startDate |-> s] : s \in DateInputs }
    \cup { [endDate |-> s] : s \in DateInputs }
    \cup { [weeklyRevenue |-> clampNumber(r)] : r \in RateInputs }
    \cup { [weeklyCost |-> clampNumber(r)] : r \in RateInputs }
    \cup { [weeklyAdjustments |-> clampNumber(r)] : r \in RateInputs }

\* { ...p, ...patch }
Spread(p, patch) ==
    [f \in DOMAIN p |-> IF f \in DOMAIN patch THEN patch[f] ELSE p[f]]

NoOut == [op |-> "none"]

InitialProjects ==
    << [id |-> 1, name |-> "Project 1",
        startDate |-> toISODateInput(NewDate(NowYear, 0, 1)),
        endDate |-> toISODateInput(NewDate(NowYear, 11, 31)),
        weeklyRevenue |-> 10000, weeklyCost |-> 7000, weeklyAdjustments |-> 0] >>

\* the first render; the year effect also runs once after it.  The page
\* is run in a zone with daylight saving time; the handlers compare dates
\* only, which no zone reorders, and the arithmetic on time values is
\* checked in every zone under SpecFn and SpecMonths.
Init ==
    /\ year = NowYear
    /\ projects = InitialProjects
    /\ effectPending = TRUE
    /\ tz = "north"
    /\ nextId = 2
    /\ edits = 0
    /\ out = NoOut

\* the year select's onChange; the effect on [year] is then due
SetYear(y) ==
    /\ ~effectPending
    /\ y # year
    /\ year' = y
    /\ effectPending' = TRUE
    /\ UNCHANGED <<projects, tz, nextId, edits, out>>

\* variant: the effect clamps to the year of the first render (a stale year)
YearEffect_StaleYear ==
    /\ effectPending
    /\ projects' = [k \in 1..Len(projects) |-> clampProjectDatesToYear(projects[k], NowYear)]
    /\ effectPending' = FALSE
    /\ UNCHANGED <<year, tz, nextId, edits, out>>

\* the effect on [year]: every project is clamped to the year
YearEffect ==
    /\ effectPending
    /\ projects' = [k \in 1..Len(projects) |-> clampProjectDatesToYear(projects[k], year)]
    /\ effectPending' = FALSE
    /\ UNCHANGED <<year, tz, nextId, edits, out>>

\* uid() is modelled as the next unused number
addProject ==
    /\ ~effectPending
    /\ nextId <= MaxIds
    /\ projects' = Append(projects,
         [id |-> nextId, name |-> "Project " \o ToString(Len(projects) + 1),
          startDate |-> defaultStart, endDate |-> defaultEnd,
          weeklyRevenue |-> 0, weeklyCost |-> 0, weeklyAdjustments |-> 0])
    /\ nextId' = nextId + 1
    /\ UNCHANGED <<year, effectPending, tz, edits, out>>

\* prev.filter((p) => p.id !== id)
FilterOut(prev, id) == SelectSeq(prev, LAMBDA p : p.id # id)

\* variant: only the empty list is left alone
RemoveResult_OffByOne(prev, id) == IF Len(prev) < 1 THEN prev ELSE FilterOut(prev, id)

RemoveResult(prev, id) == IF Len(prev) <= 1 THEN prev ELSE FilterOut(prev, id)

removeProject(id) ==
    /\ ~effectPending
    /\ projects' = RemoveResult(projects, id)
    /\ UNCHANGED <<year, effectPending, tz, nextId, edits, out>>

updateProject(id, patch) ==
    /\ ~effectPending
    /\ edits < MaxEdits
    /\ projects' = [k \in 1..Len(projects) |->
                      IF projects[k].id = id THEN Spread(projects[k], patch)
                      ELSE projects[k]]
    /\ edits' = edits + 1
    /\ UNCHANGED <<year, effectPending, tz, nextId, out>>

Next ==
    \/ \E y \in yearOptions : SetYear(y)
    \/ YearEffect
    \/ addProject
    \/ \E id \in 1..MaxIds : removeProject(id)
    \/ \E id \in 1..MaxIds : \E patch \in Patches : updateProject(id, patch)

Spec == Init /\ [][Next]_vars

(***************************************************************************)
(* The rollup, the clamp and the month buckets as functions of their       *)
(* inputs: the inputs are drawn, then one of them is applied               *)
(***************************************************************************)
\* the percentage shown under a bucket amount
BucketPct(a) == marginPct(a.revenue, a.margin)

RollupOf(ps, ms) ==
    With(GridOf(ps, ms), LAMBDA grid :
    With(PortfolioOf(grid, ms), LAMBDA portfolio :
      [op |-> "rollup",
       rows |-> grid,
       portfolio |-> portfolio,
       rowPcts |-> [k \in 1..Len(grid) |->
                      [i \in 1..Len(ms) |-> BucketPct(grid[k].byMonth[i])]],
       portfolioPcts |-> [i \in 1..Len(ms) |-> BucketPct(portfolio.byMonth[i])]]))

\* date texts: cleared, no calendar day, unpadded, and days before, in and
\* after the year NowYear
FnDates ==
    { EmptyString,
      DateText(NowYear, 2, 30),
      <<DigitsOf(NowYear), <<"3">>, <<"9">>>>,
      DateText(NowYear, 1, 1),
      DateText(NowYear, 1, 31),
      DateText(NowYear, 12, 31),
      DateText(NowYear - 1, 11, 20),
      DateText(NowYear + 1, 7, 4) }

FnRates ==
    { [weeklyRevenue |-> 10000, weeklyCost |-> 7000, weeklyAdjustments |-> 0],
      [weeklyRevenue |-> 0, weeklyCost |-> 0, weeklyAdjustments |-> 0],
      [weeklyRevenue |-> -2000, weeklyCost |-> 3000, weeklyAdjustments |-> 500] }

ProjectOf(id, s, e, r) ==
    [id |-> id, name |-> "Project " \o ToString(id), startDate |-> s, endDate |-> e,
     weeklyRevenue |-> r.weeklyRevenue, weeklyCost |-> r.weeklyCost,
     weeklyAdjustments |-> r.weeklyAdjustments]

\* the first project of a collection
FnFirst == { ProjectOf(1, s, e, r) : s \in FnDates, e \in FnDates, r \in FnRates }

\* the further projects of a collection: one spanning the years around
\* NowYear, and one whose start date has a field that is no number
FnFurther(id) ==
    { ProjectOf(id, DateText(NowYear - 1, 11, 20), DateText(NowYear + 1, 7, 4),
                [weeklyRevenue |-> 3000, weeklyCost |-> 1000, weeklyAdjustments |-> -200]),
      ProjectOf(id, <<DigitsOf(NowYear), <<"x">>, <<"0", "1">>>>, DateText(NowYear, 3, 31),
                [weeklyRevenue |-> 10000, weeklyCost |-> 7000, weeklyAdjustments |-> 0]) }

RECURSIVE FnCollections(_)
\* the collections of exactly n projects
FnCollections(n) ==
    IF n = 0 THEN { <<>> }
    ELSE IF n = 1 THEN { <<p>> : p \in FnFirst }
    ELSE { Append(c, q) : c \in FnCollections(n - 1), q \in FnFurther(n) }

\* a leap year and the year after it
FnYears == {NowYear, NowYear + 1}

InitFn ==
    /\ year \in FnYears
    /\ projects \in UNION { FnCollections(n) : n \in 0..MaxRows }
    /\ effectPending = FALSE
    /\ tz \in TimeZones
    /\ nextId = Len(projects) + 1
    /\ edits = 0
    /\ out = NoOut

CallRollup ==
    /\ out = NoOut
    /\ out' = With(months, LAMBDA ms : RollupOf(projects, ms))
    /\ UNCHANGED <<year, projects, effectPending, tz, nextId, edits>>

CallClamp ==
    /\ out = NoOut
    /\ out' = [op |-> "clamp",
               projects |-> [k \in 1..Len(projects) |->
                               clampProjectDatesToYear(projects[k], year)]]
    /\ UNCHANGED <<year, projects, effectPending, tz, nextId, edits>>

NextFn == CallRollup \/ CallClamp

SpecFn == InitFn /\ [][NextFn]_vars

InitMonths ==
    /\ year \in FirstYear..(FirstYear + YearSpan)
    /\ projects = <<>>
    /\ effectPending = FALSE
    /\ tz \in TimeZones
    /\ nextId = 1
    /\ edits = 0
    /\ out = NoOut

CallBuildMonths ==
    /\ out = NoOut
    /\ out' = [op |-> "months", months |-> buildMonthsForYear(year)]
    /\ UNCHANGED <<year, projects, effectPending, tz, nextId, edits>>

NextMonths == CallBuildMonths

SpecMonths == InitMonths /\ [][NextMonths]_vars

(***************************************************************************)
(* Claims                                                                  *)
(***************************************************************************)
IsLeapYear(y) == (y % 4 = 0 /\ y % 100 # 0) \/ y % 400 = 0

\* C1: buildMonthsForYear(year) returns exactly 12 buckets in month order;
\* bucket 0 starts on January 1 of the year and bucket 11 ends on December
\* 31; every bucket has start <= end; each next bucket starts exactly one
\* calendar day after the previous one ends; so the buckets cover the 365
\* days of the year, 366 in a leap year.
C1_MonthsPartitionYear ==
    out.op = "months" =>
      LET ms == out.months
      IN  /\ DOMAIN ms = 1..12
          /\ \A i \in 1..12 :
               /\ ms[i].monthIndex = i - 1
               /\ ~DateGT(ms[i].start, ms[i].end)
               /\ ms[i].start.hour = 12 /\ ms[i].end.hour = 12
               /\ getMonth(ms[i].start) = i - 1 /\ getMonth(ms[i].end) = i - 1
          /\ getFullYear(ms[1].start) = year
          /\ getMonth(ms[1].start) = 0 /\ getDate(ms[1].start) = 1
          /\ getFullYear(ms[12].end) = year
          /\ getMonth(ms[12].end) = 11 /\ getDate(ms[12].end) = 31
          /\ \A i \in 1..11 : ms[i + 1].start.day = ms[i].end.day + 1
          /\ ms[12].end.day - ms[1].start.day + 1 = (IF IsLeapYear(year) THEN 366 ELSE 365)

\* C1 witness: the buckets of a leap year were built, February ending on the 29th
C1_Witness ==
    /\ out.op = "months"
    /\ IsLeapYear(year)
    /\ getDate(out.months[2].end) = 29
    /\ getDate(out.months[3].start) = 1

\* the dates of a project, parsed
StartOf(p) == parseDateInput(p.startDate)

EndOf(p) == parseDateInput(p.endDate)

Parseable(p) == ~IsNull(StartOf(p)) /\ ~IsNull(EndOf(p))

Max(a, b) == IF a > b THEN a ELSE b

Min(a, b) == IF a < b THEN a ELSE b

AmountsOfDays(p, days) ==
    [revenue |-> Rat(p.weeklyRevenue * days, 7),
     cost |-> Rat(p.weeklyCost * days, 7),
     adjustments |-> Rat(p.weeklyAdjustments * days, 7)]

SameRates(a, b) ==
    /\ a.revenue = b.revenue
    /\ a.cost = b.cost
    /\ a.adjustments = b.adjustments

\* C2: for a project with parseable dates and any month bucket, with
\* overlapStart the later of the two starts and overlapEnd the earlier of
\* the two ends: if overlapStart > overlapEnd the bucket amount is zero in
\* all four components, otherwise revenue, cost and adjustments are the
\* weekly rate times days / 7 with days = overlapEnd - overlapStart in
\* calendar days, plus 1.
C2_BucketAmountByDayOverlap ==
    out.op = "rollup" =>
      \A k \in 1..Len(projects) : Parseable(projects[k]) =>
        \A i \in 1..12 :
          LET p == projects[k]
              overlapStart == Max(StartOf(p).day, months[i].start.day)
              overlapEnd == Min(EndOf(p).day, months[i].end.day)
              a == out.rows[k].byMonth[i]
          IN  IF overlapStart > overlapEnd THEN a = ZeroAmounts
              ELSE SameRates(a, AmountsOfDays(p, overlapEnd - overlapStart + 1))

\* C2 witness: the range January 1..31 of 2024 gave 31 days against January
\* 2024, and zero against March
C2_Witness ==
    /\ out.op = "rollup"
    /\ year = 2024
    /\ Len(projects) >= 1
    /\ projects[1].startDate = DateText(2024, 1, 1)
    /\ projects[1].endDate = DateText(2024, 1, 31)
    /\ projects[1].weeklyRevenue = 10000
    /\ out.rows[1].byMonth[1].revenue = Rat(310000, 7)
    /\ out.rows[1].byMonth[1].cost = Rat(217000, 7)
    /\ out.rows[1].byMonth[3] = ZeroAmounts

\* the days of a year, and of the year of the current render
YearDaysOf(yr) == DaysFromCivil(yr, 1, 1)..DaysFromCivil(yr, 12, 31)

YearDays == YearDaysOf(year)

\* C3: for a project with a valid range (start <= end), the sum of its 12
\* month amounts equals the amounts computed against one bucket spanning
\* January 1..December 31, and each of revenue, cost and adjustments of the
\* total equals the weekly rate times D / 7, D the number of days common to
\* the range and the year.
C3_Linearity ==
    out.op = "rollup" =>
      \A k \in 1..Len(projects) :
        LET p == projects[k]
        IN  (Parseable(p) /\ StartOf(p).day <= EndOf(p).day) =>
              LET ps == StartOf(p)
                  pe == EndOf(p)
                  wholeYear == [start |-> startOfDayNoon(NewDate(year, 0, 1)),
                                end |-> startOfDayNoon(NewDate(year, 11, 31))]
                  D == Cardinality({d \in YearDays : ps.day <= d /\ d <= pe.day})
              IN  /\ out.rows[k].total = BucketAmounts(p, ps, pe, wholeYear)
                  /\ SameRates(out.rows[k].total, AmountsOfDays(p, D))

\* C3 witness: a range that starts before and ends after the leap year
\* 2024 was rolled up to 366 days
C3_Witness ==
    /\ out.op = "rollup"
    /\ year = 2024
    /\ Len(projects) >= 1
    /\ projects[1].startDate = DateText(2023, 11, 20)
    /\ projects[1].endDate = DateText(2025, 7, 4)
    /\ projects[1].weeklyRevenue = 10000
    /\ out.rows[1].total.revenue = Rat(3660000, 7)

RECURSIVE SumUpTo(_, _)
\* f[1] + ... + f[n] over rationals
SumUpTo(f, n) == IF n = 0 THEN RZero ELSE RAdd(SumUpTo(f, n - 1), f[n])

Components == {"revenue", "cost", "adjustments", "margin"}

\* C4: in every component, the portfolio total equals the sum of the 12
\* portfolio bucket amounts, each of which is the sum of the projects'
\* amounts in that bucket, and it equals the sum of the projects' totals;
\* for the empty collection the portfolio total is the zero Amounts.
C4_PortfolioConsistency ==
    out.op = "rollup" =>
      LET rows == out.rows
          n == Len(rows)
      IN  /\ \A c \in Components :
               /\ \A i \in 1..12 :
                    out.portfolio.byMonth[i][c]
                      = SumUpTo([k \in 1..n |-> rows[k].byMonth[i][c]], n)
               /\ out.portfolio.total[c]
                    = SumUpTo([i \in 1..12 |-> out.portfolio.byMonth[i][c]], 12)
               /\ out.portfolio.total[c]
                    = SumUpTo([k \in 1..n |-> rows[k].total[c]], n)
          /\ n = 0 => out.portfolio.total = ZeroAmounts

\* C4 witness: two projects with different nonzero margins were rolled up
C4_Witness ==
    /\ out.op = "rollup"
    /\ Len(out.rows) = 2
    /\ out.rows[1].total.margin.n > 0
    /\ out.rows[2].total.margin.n > 0
    /\ out.rows[1].total.margin # out.rows[2].total.margin
    /\ out.portfolio.total.margin = RAdd(out.rows[1].total.margin, out.rows[2].total.margin)

\* C5: the rollup has one row per project, in order; a project with an
\* unparseable start or end date has the dateError "Start and end dates are
\* required.", one whose dates parse with start after end has "Start date
\* must be on/before end date.", and either has zero Amounts in all 12
\* buckets and a zero total; any other project has no dateError.
C5_DateErrorRowsAreZeroAndKept ==
    out.op = "rollup" =>
      /\ Len(out.rows) = Len(projects)
      /\ \A k \in 1..Len(projects) :
           LET p == projects[k]
               row == out.rows[k]
               zero == /\ \A i \in 1..12 : row.byMonth[i] = ZeroAmounts
                       /\ row.total = ZeroAmounts
           IN  /\ row.project = p
               /\ DOMAIN row.byMonth = 1..12
               /\ IF ~Parseable(p)
                  THEN row.dateError = "Start and end dates are required." /\ zero
                  ELSE IF StartOf(p).day > EndOf(p).day
                  THEN row.dateError = "Start date must be on/before end date." /\ zero
                  ELSE row.dateError = NoError

\* C5 witness: a project with an unparseable date and nonzero rates was
\* rolled up next to one without a date error
C5_Witness ==
    /\ out.op = "rollup"
    /\ Len(out.rows) = 2
    /\ out.rows[1].dateError = "Start and end dates are required."
    /\ projects[1].weeklyRevenue # 0
    /\ out.rows[1].total = ZeroAmounts
    /\ out.rows[2].dateError = NoError

MarginIdentity(a) == a.margin = RAdd(RSub(a.revenue, a.cost), a.adjustments)

\* C6: every Amounts of the rollup (each bucket amount and the total of
\* each project, each portfolio bucket amount and the portfolio total) has
\* margin = revenue - cost + adjustments, in exact arithmetic.
C6_MarginIdentity ==
    out.op = "rollup" =>
      /\ \A k \in 1..Len(out.rows) :
           /\ \A i \in 1..12 : MarginIdentity(out.rows[k].byMonth[i])
           /\ MarginIdentity(out.rows[k].total)
      /\ \A i \in 1..12 : MarginIdentity(out.portfolio.byMonth[i])
      /\ MarginIdentity(out.portfolio.total)

\* C6 witness: two projects with nonzero adjustments were rolled up
C6_Witness ==
    /\ out.op = "rollup"
    /\ Len(out.rows) = 2
    /\ out.rows[1].total.adjustments.n # 0
    /\ out.rows[2].total.adjustments.n # 0
    /\ out.portfolio.total.margin.n # 0

\* pct is the percentage of an Amounts: null when revenue <= 0, otherwise
\* the number whose product with revenue is margin
IsPctOf(pct, a) ==
    IF a.revenue.n <= 0 THEN IsNull(pct)
    ELSE ~IsNull(pct) /\ RMul(pct, a.revenue) = a.margin

\* C7: the projected percentage of each project, the portfolio percentage
\* and every bucket percentage is null when the revenue is <= 0 and margin
\* / revenue otherwise; a project with a date error or with all rates zero,
\* and the empty portfolio, have a null percentage.
C7_PercentageGuard ==
    out.op = "rollup" =>
      /\ \A k \in 1..Len(out.rows) :
           LET row == out.rows[k]
           IN  /\ IsPctOf(row.projectedPct, row.total)
               /\ \A i \in 1..12 : IsPctOf(out.rowPcts[k][i], row.byMonth[i])
               /\ row.dateError # NoError => IsNull(row.projectedPct)
               /\ (/\ row.project.weeklyRevenue = 0
                   /\ row.project.weeklyCost = 0
                   /\ row.project.weeklyAdjustments = 0) => IsNull(row.projectedPct)
      /\ IsPctOf(out.portfolio.projectedPct, out.portfolio.total)
      /\ \A i \in 1..12 : IsPctOf(out.portfolioPcts[i], out.portfolio.byMonth[i])
      /\ Len(out.rows) = 0 => IsNull(out.portfolio.projectedPct)

\* C7 witness: a project with negative revenue and nonzero margin has a
\* null percentage next to one whose percentage is a number
C7_Witness ==
    /\ out.op = "rollup"
    /\ Len(out.rows) = 2
    /\ out.rows[1].total.revenue.n < 0
    /\ out.rows[1].total.margin.n # 0
    /\ IsNull(out.rows[1].projectedPct)
    /\ ~IsNull(out.rows[2].projectedPct)

InYearOf(p, yr) ==
    /\ Parseable(p)
    /\ StartOf(p).day \in YearDaysOf(yr)
    /\ EndOf(p).day \in YearDaysOf(yr)

InYear(p) == InYearOf(p, year)

BeforeYear(p) ==
    /\ Parseable(p)
    /\ StartOf(p).day < DaysFromCivil(year, 1, 1)
    /\ EndOf(p).day < DaysFromCivil(year, 1, 1)

\* the text is the one toISODateInput writes for its date
IsCanonical(text) ==
    /\ ~IsNull(parseDateInput(text))
    /\ text = toISODateInput(parseDateInput(text))

\* q has the start and end dates of p, and the same text where p's is canonical
SameDates(p, q) ==
    /\ StartOf(q) = StartOf(p)
    /\ EndOf(q) = EndOf(p)
    /\ IsCanonical(p.startDate) => q.startDate = p.startDate
    /\ IsCanonical(p.endDate) => q.endDate = p.endDate

\* what C8 says of every project, whatever its dates
ClampAlways(p, q) ==
    /\ DOMAIN q = DOMAIN p
    /\ \A f \in DOMAIN p \ {"startDate", "endDate"} : q[f] = p[f]
    /\ clampProjectDatesToYear(q, year) = q
    /\ BeforeYear(p) =>
         /\ q.startDate = DateText(year, 1, 1)
         /\ q.endDate = DateText(year, 1, 1)

\* C8 as stated: clampProjectDatesToYear returns the same start and end
\* dates for every project whose start and end dates lie within the year,
\* collapses a range entirely before the year to January 1, leaves the
\* other fields unchanged, and clamping twice equals clamping once.
C8_Original ==
    out.op = "clamp" =>
      \A k \in 1..Len(projects) :
        /\ ClampAlways(projects[k], out.projects[k])
        /\ InYear(projects[k]) => SameDates(projects[k], out.projects[k])

\* C8, amended: the same, with the no-op only for a project whose start and
\* end dates lie within the year and whose start is on or before its end
\* (for an inverted range within the year the end is set to the start).
C8_ClampIdempotence ==
    out.op = "clamp" =>
      \A k \in 1..Len(projects) :
        LET p == projects[k]
            q == out.projects[k]
        IN  /\ ClampAlways(p, q)
            /\ (InYear(p) /\ StartOf(p).day <= EndOf(p).day) => SameDates(p, q)
            /\ (InYear(p) /\ StartOf(p).day > EndOf(p).day) =>
                 /\ StartOf(q) = StartOf(p)
                 /\ EndOf(q) = StartOf(p)

\* C8 witness: a project within the year was clamped to itself next to one
\* that reached into the year from before it
C8_Witness ==
    /\ out.op = "clamp"
    /\ Len(projects) = 2
    /\ InYear(projects[1])
    /\ StartOf(projects[1]).day < EndOf(projects[1]).day
    /\ out.projects[1] = projects[1]
    /\ out.projects[2] # projects[2]

\* every project's dates are days of the year, start on or before end
AllInYearOf(ps, yr) ==
    \A k \in 1..Len(ps) :
      /\ InYearOf(ps[k], yr)
      /\ StartOf(ps[k]).day <= EndOf(ps[k]).day

AllInYear == AllInYearOf(projects, year)

\* C9: every change of the year makes the year effect due, and the step
\* taken while it is due is the effect: it keeps the year and the number of
\* projects, and in the state after it every project's start and end date
\* are valid dates within January 1..December 31 of the selected year with
\* start <= end, whatever they were before.
C9_YearEffectClampsAll ==
    [][ /\ year' # year => effectPending'
        /\ effectPending =>
             /\ ~effectPending'
             /\ year' = year
             /\ Len(projects') = Len(projects)
             /\ AllInYearOf(projects', year') ]_vars

\* C9 witness: the year was changed to the first of the options and the
\* effect gave the first project, whose start date did not parse, January 1
\* of that year as its start
C9_Witness ==
    /\ ~effectPending
    /\ year = NowYear - 1
    /\ projects[1].id = 1
    /\ projects[1].startDate = DateText(NowYear - 1, 1, 1)
    /\ AllInYear

RECURSIVE Without(_, _)
\* the projects of ps whose id is not id, in order
Without(ps, id) ==
    IF ps = <<>> THEN <<>>
    ELSE IF ps[1].id = id THEN Without(Tail(ps), id)
    ELSE <<ps[1]>> \o Without(Tail(ps), id)

DaysInMonth(yr) ==
    <<31, IF IsLeapYear(yr) THEN 29 ELSE 28, 31, 30, 31, 30, 31, 31, 30, 31, 30, 31>>

\* the days of a bucket, both ends counted
BucketDays(m) == m.end.day - m.start.day + 1

\* the buckets start on January 1 of the year, each next one the day after
\* the previous one ends
ContiguousFromJan1(ms) ==
    /\ Len(ms) >= 1
    /\ ms[1].start.day = DaysFromCivil(year, 1, 1)
    /\ \A i \in 1..(Len(ms) - 1) : ms[i + 1].start.day = ms[i].end.day + 1

\* every row of the rollup, and the portfolio, has one amount per bucket
RollupOver(ms) ==
    /\ \A k \in 1..Len(out.rows) : Len(out.rows[k].byMonth) = Len(ms)
    /\ Len(out.portfolio.byMonth) = Len(ms)

====
